---- MODULE Spec2Model ----
(***************************************************************************)
(* Part affinity field generation of sleap/nn/data/edge_maps.py.           *)
(*                                                                         *)
(* Numbers.  Keypoint and grid coordinates are tf.float32 in the source;   *)
(* here a coordinate is an integer count of 1/Sub pixel, or NaN.  A PAF    *)
(* value is an integer count of 1/Q, rounded to Mant significant bits the  *)
(* way a float is (round to nearest, ties to even), or NaN.  Exponent      *)
(* range (overflow, underflow) is not modelled.                            *)
(*                                                                         *)
(* Specifications.  SpecDist applies distance_to_edge to every point and   *)
(* edge of a coordinate range; SpecMulti applies make_multi_pafs to every  *)
(* list of instances of a family; SpecGen applies generate_pafs to every   *)
(* record of a family under every configuration; Spec is                   *)
(* transform_dataset followed by the parallel map of generate_pafs over    *)
(* the input dataset and a consumer of the returned dataset.               *)
(***************************************************************************)
EXTENDS Integers, Sequences, FiniteSets, TLC

VARIABLES
    \* ---- distance_to_edge applied to one query point and one edge
    points, edge_source, edge_destination, distances,
    \* ---- make_multi_pafs applied to the edges of a list of instances
    edge_sources, edge_destinations, pafs,
    \* ---- PartAffinityFieldsGenerator: its attributes, and what
    \* ---- transform_dataset computes once for generate_pafs to close over
    self, xv, yv, edge_inds,
    \* ---- generate_pafs applied to one record: its argument, its local
    \* ---- `instances` after the in-frame filter, what it returns or raises
    example, instances, result,
    \* ---- the stream: the input dataset, where transform_dataset is, how
    \* ---- many records the iterator of the setup and the iterator of the
    \* ---- map have read, the degree of parallelism, the invocations of
    \* ---- generate_pafs in dispatch order, what the consumer has received
    input_ds, pc, peek_it, next_in, num_parallel_calls, invocations, out,
    \* ---- phase of the function under study ("args" -> "returned")
    fpc

dvars == <<points, edge_source, edge_destination, distances>>
mvars == <<edge_sources, edge_destinations, pafs>>
svars == <<self, xv, yv, edge_inds>>
gvars == <<example, instances, result>>
pvars == <<input_ds, pc, peek_it, next_in, num_parallel_calls, invocations, out>>
vars == <<dvars, mvars, svars, gvars, pvars, fpc>>

-----------------------------------------------------------------------------
(* float32 *)

\* The float NaN (tf.math.is_nan), a value outside every range used here.
NaN == -1000000
\* Sub-pixel resolution of a coordinate: 1 pixel = Sub units.
Sub == 2
\* 1.0 in the units of a PAF / confidence value.
Q == 64
\* Significant bits kept by a float operation.
Mant == 4

IsNaN(a) == a = NaN
Abs(a) == IF a < 0 THEN -a ELSE a
Sgn(a) == IF a < 0 THEN -1 ELSE 1
Max(a, b) == IF a >= b THEN a ELSE b
Min(a, b) == IF a <= b THEN a ELSE b

RECURSIVE Pow2(_)
Pow2(n) == IF n = 0 THEN 1 ELSE 2 * Pow2(n - 1)

\* The least magnitude whose float spacing exceeds one unit.
TwoMant == Pow2(Mant)

\* Spacing of the floats around magnitude a.
RECURSIVE Ulp(_)
Ulp(a) == IF a < TwoMant THEN 1 ELSE 2 * Ulp(a \div 2)

\* Integer square root: the largest k in lo..hi with k * k <= a.
RECURSIVE ISqrtIn(_, _, _)
ISqrtIn(a, lo, hi) ==
    IF lo = hi THEN lo
    ELSE LET mid == (lo + hi + 1) \div 2
         IN  IF mid * mid <= a THEN ISqrtIn(a, mid, hi) ELSE ISqrtIn(a, lo, mid - 1)

\* Round to nearest float, ties to even.
FRound(a) ==
    IF IsNaN(a) THEN NaN
    ELSE LET m == Abs(a)
             u == Ulp(m)
             q == m \div u
             r == m % u
             up == (2 * r > u) \/ (2 * r = u /\ q % 2 = 1)
         IN  Sgn(a) * (IF up THEN q + 1 ELSE q) * u

FAdd(a, b) == IF IsNaN(a) \/ IsNaN(b) THEN NaN ELSE FRound(a + b)
FSub(a, b) == IF IsNaN(a) \/ IsNaN(b) THEN NaN ELSE a - b
\* Product of two values in units of 1/Q.
FMul(a, b) ==
    IF IsNaN(a) \/ IsNaN(b) THEN NaN
    ELSE FRound(Sgn(a) * Sgn(b) * ((Abs(a) * Abs(b)) \div Q))

-----------------------------------------------------------------------------
(* distance_to_edge, for one point and one edge.  The result is the exact  *)
(* rational <<num, den>> in squared coordinate units, <<NaN, 1>> for NaN.  *)

distance_to_edge(pt, src, dst) ==
    IF \E c \in 1..2 : IsNaN(pt[c]) \/ IsNaN(src[c]) \/ IsNaN(dst[c])
    THEN <<NaN, 1>>
    ELSE
    LET direction_vector == <<dst[1] - src[1], dst[2] - src[2]>>
        edge_length ==
            Max(direction_vector[1] * direction_vector[1]
                + direction_vector[2] * direction_vector[2], Sub * Sub)
        source_relative_points == <<pt[1] - src[1], pt[2] - src[2]>>
        dot == source_relative_points[1] * direction_vector[1]
               + source_relative_points[2] * direction_vector[2]
        \* line_projections = dot / edge_length, clipped to [0, 1]
        tn == IF dot <= 0 THEN 0 ELSE IF dot >= edge_length THEN edge_length ELSE dot
        e1 == tn * direction_vector[1] - edge_length * source_relative_points[1]
        e2 == tn * direction_vector[2] - edge_length * source_relative_points[2]
    IN  <<e1 * e1 + e2 * e2, edge_length * edge_length>>

\* The standard squared distance from pt to the segment [src, dst], as an
\* exact rational: to src when the segment is a point, else to the point
\* src + t (dst - src) with t the projection parameter clipped to [0, 1].
SegmentDistance(pt, src, dst) ==
    LET d == <<dst[1] - src[1], dst[2] - src[2]>>
        r == <<pt[1] - src[1], pt[2] - src[2]>>
        len2 == d[1] * d[1] + d[2] * d[2]
        dot == r[1] * d[1] + r[2] * d[2]
    IN  IF len2 = 0 THEN <<r[1] * r[1] + r[2] * r[2], 1>>
        ELSE LET tn == IF dot <= 0 THEN 0 ELSE IF dot >= len2 THEN len2 ELSE dot
                 e1 == tn * d[1] - len2 * r[1]
                 e2 == tn * d[2] - len2 * r[2]
             IN  <<e1 * e1 + e2 * e2, len2 * len2>>

\* Equality of two rationals <<num, den>> with positive denominators.
RatEq(a, b) == a[1] * b[2] = b[1] * a[2]

-----------------------------------------------------------------------------
(* sleap.nn.data.utils.gaussian_pdf: exp(-x^2 / (2 sigma^2)) of a distance  *)
(* field value x = <<num, den>> (squared coordinate units), as a float in   *)
(* units of 1/Q.  x is taken in steps of 1/4 pixel^2 per sigma; the table   *)
(* holds Q * exp(-(k/4)^2 / 2) rounded to the float format.                 *)

GaussTable == <<64, 64, 56, 48, 40, 30, 20, 14, 9, 5, 3, 1, 1>>

gaussian_pdf(x, sigma) ==
    IF IsNaN(x[1]) THEN NaN
    ELSE LET k == (4 * x[1]) \div (x[2] * Sub * Sub * sigma)
         IN  IF k < Len(GaussTable) THEN GaussTable[k + 1] ELSE 0

-----------------------------------------------------------------------------
(* make_edge_maps, make_pafs, make_multi_pafs.  A tensor is a nested        *)
(* sequence; xv and yv are the grid vectors; esrc and edst are sequences    *)
(* (one entry per edge) of points.                                          *)

make_edge_maps(gxv, gyv, esrc, edst, sigma) ==
    [y \in 1..Len(gyv) |-> [x \in 1..Len(gxv) |-> [e \in 1..Len(esrc) |->
        gaussian_pdf(distance_to_edge(<<gxv[x], gyv[y]>>, esrc[e], edst[e]), sigma)]]]

\* Component dc of the vector of squared norm n2, divided by the norm
\* (tf.linalg.norm, then the division): 0 / 0 is NaN.
UnitComponent(dc, n2) ==
    IF IsNaN(dc) \/ IsNaN(n2) \/ n2 = 0 THEN NaN
    ELSE FRound(Sgn(dc) * ISqrtIn((Q * Q * dc * dc) \div n2, 0, Q))

\* (dst - src) / tf.linalg.norm(dst - src, axis=-1, keepdims=True)
UnitVector(src, dst) ==
    LET dx == FSub(dst[1], src[1])
        dy == FSub(dst[2], src[2])
        n2 == IF IsNaN(dx) \/ IsNaN(dy) THEN NaN ELSE dx * dx + dy * dy
    IN  <<UnitComponent(dx, n2), UnitComponent(dy, n2)>>

make_pafs(gxv, gyv, esrc, edst, sigma) ==
    LET unit_vectors == [e \in 1..Len(esrc) |-> UnitVector(esrc[e], edst[e])]
        edge_confidence_map == make_edge_maps(gxv, gyv, esrc, edst, sigma)
    IN  [y \in 1..Len(gyv) |-> [x \in 1..Len(gxv) |-> [e \in 1..Len(esrc) |->
            LET conf == edge_confidence_map[y][x][e]
                u == unit_vectors[e]
            IN  <<FMul(conf, u[1]), FMul(conf, u[2])>>]]]

\* Mutation of NanToZero: the NaN test is left out.
NanToZeroKeepsNaN(a) == a

\* tf.where(tf.math.is_nan(paf), 0.0, paf)
NanToZero(a) == IF IsNaN(a) THEN 0 ELSE a

\* Mutation of Accumulate: the instance's PAF replaces the accumulated
\* value wherever it is defined, instead of being added to it.
AccumulateOverwrites(acc, paf) ==
    [y \in DOMAIN acc |-> [x \in DOMAIN acc[y] |-> [e \in DOMAIN acc[y][x] |->
        LET a == acc[y][x][e]
            p == paf[y][x][e]
        IN  <<IF IsNaN(p[1]) THEN a[1] ELSE p[1], IF IsNaN(p[2]) THEN a[2] ELSE p[2]>>]]]

\* Mutation of Accumulate: the larger of the accumulated value and the
\* instance's value is kept, instead of their sum.
AccumulateMax(acc, paf) ==
    [y \in DOMAIN acc |-> [x \in DOMAIN acc[y] |-> [e \in DOMAIN acc[y][x] |->
        LET a == acc[y][x][e]
            p == paf[y][x][e]
        IN  <<Max(a[1], NanToZero(p[1])), Max(a[2], NanToZero(p[2]))>>]]]

\* pafs += tf.where(tf.math.is_nan(paf), 0.0, paf), element by element
Accumulate(acc, paf) ==
    [y \in DOMAIN acc |-> [x \in DOMAIN acc[y] |-> [e \in DOMAIN acc[y][x] |->
        LET a == acc[y][x][e]
            p == paf[y][x][e]
        IN  <<FAdd(a[1], NanToZero(p[1])), FAdd(a[2], NanToZero(p[2]))>>]]]

\* Mutation of tf_zeros: the field starts at 1.0 everywhere.
tf_ones(gxv, gyv, n_edges) ==
    [y \in 1..Len(gyv) |-> [x \in 1..Len(gxv) |-> [e \in 1..n_edges |-> <<Q, Q>>]]]

\* tf.zeros((grid_height, grid_width, n_edges, 2), tf.float32)
tf_zeros(gxv, gyv, n_edges) ==
    [y \in 1..Len(gyv) |-> [x \in 1..Len(gxv) |-> [e \in 1..n_edges |-> <<0, 0>>]]]

\* The loop of make_multi_pafs after its first i iterations.
RECURSIVE MultiPafsLoop(_, _, _, _, _, _, _)
MultiPafsLoop(gxv, gyv, esrcs, edsts, sigma, n_edges, i) ==
    IF i = 0
    THEN tf_zeros(gxv, gyv, n_edges)
    ELSE Accumulate(MultiPafsLoop(gxv, gyv, esrcs, edsts, sigma, n_edges, i - 1),
                    make_pafs(gxv, gyv, esrcs[i], edsts[i], sigma))

\* esrcs, edsts: [n_instances, n_edges, 2]; n_edges is the static second
\* dimension (tf.shape(edge_sources)[1]), known also when there is no instance.
make_multi_pafs(gxv, gyv, esrcs, edsts, sigma, n_edges) ==
    MultiPafsLoop(gxv, gyv, esrcs, edsts, sigma, n_edges, Len(esrcs))

-----------------------------------------------------------------------------
(* sleap.nn.data.utils.make_grid_vectors: the centres of the cells of an   *)
(* image sampled every output_stride pixels, in coordinate units.          *)

CeilDiv(a, b) == (a + b - 1) \div b

make_grid_vectors(image_height, image_width, output_stride) ==
    <<[i \in 1..CeilDiv(image_width, output_stride) |->
          Sub * (i - 1) * output_stride + (Sub * output_stride) \div 2],
      [i \in 1..CeilDiv(image_height, output_stride) |->
          Sub * (i - 1) * output_stride + (Sub * output_stride) \div 2]>>

-----------------------------------------------------------------------------
(* Tensors with a shape.  The `instances` of a record is a tensor          *)
(* [shape |-> s, val |-> v]: v is the nested sequence of its elements      *)
(* along the axes of s (for [n_instances, n_nodes, 2]: a sequence of       *)
(* instances, each a sequence of points <<x, y>>).  An operation that      *)
(* raises returns [error |-> kind].                                        *)

Last(s) == s[Len(s)]

RaisedError(kind) == [error |-> kind]
IsError(r) == "error" \in DOMAIN r

\* Shapes are aligned at their last axis; a missing axis counts as 1.
PadLeft(s, r) ==
    [i \in 1..r |-> IF i <= r - Len(s) THEN 1 ELSE s[i - (r - Len(s))]]

Broadcastable(a, b) ==
    LET r == Max(Len(a), Len(b))
        pa == PadLeft(a, r)
        pb == PadLeft(b, r)
    IN  \A i \in 1..r : pa[i] = pb[i] \/ pa[i] = 1 \/ pb[i] = 1

BroadcastShape(a, b) ==
    LET r == Max(Len(a), Len(b))
        pa == PadLeft(a, r)
        pb == PadLeft(b, r)
    IN  [i \in 1..r |-> IF pa[i] = 1 THEN pb[i] ELSE pa[i]]

\* The shape left by a reduction over one axis (axis counted from 1).
RemoveAxis(s, axis) ==
    [i \in 1..(Len(s) - 1) |-> IF i < axis THEN s[i] ELSE s[i + 1]]

\* The elements of t broadcast to [n_instances, n_nodes, 2] (t of rank <= 3).
AsRank3(t) ==
    IF Len(t.shape) = 3 THEN t.val
    ELSE IF Len(t.shape) = 2 THEN <<t.val>>
    ELSE IF Len(t.shape) = 1 THEN <<<<t.val>>>>
    ELSE <<<<<<t.val>>>>>>

\* Comparisons of floats: false when either side is NaN.
Greater(a, b) == ~IsNaN(a) /\ ~IsNaN(b) /\ a > b
Less(a, b) == ~IsNaN(a) /\ ~IsNaN(b) /\ a < b

-----------------------------------------------------------------------------
(* generate_pafs, the function transform_dataset maps over the records *)

\* Mutation of InImgPoint: one coordinate in range is enough (reduce_any
\* in the place of reduce_all over the last axis).
InImgPointAnyCoordinate(p, gxv, gyv) ==
    LET bound == <<Last(gxv), Last(gyv)>>
    IN  \E c \in 1..2 :
            LET v == IF Len(p) = 1 THEN p[1] ELSE p[c]
            IN  Greater(v, 0) /\ Less(v, bound[c])

\* (instances > 0) & (instances < [xv[-1], yv[-1]]), reduce_all(axis=-1):
\* both coordinates of the point are above 0 and below the last grid
\* coordinate.
InImgPoint(p, gxv, gyv) ==
    LET bound == <<Last(gxv), Last(gyv)>>
    IN  \A c \in 1..2 :
            LET v == IF Len(p) = 1 THEN p[1] ELSE p[c]
            IN  Greater(v, 0) /\ Less(v, bound[c])

\* reduce_any(axis=1): some point of the instance is in the image.
InImgInstance(nodes, gxv, gyv) ==
    \E j \in DOMAIN nodes : InImgPoint(nodes[j], gxv, gyv)

\* in_img of generate_pafs: one boolean for each instance, or the error
\* of the comparison or of ensure_shape(in_img, [None]).
in_img(inst, gxv, gyv) ==
    IF ~Broadcastable(inst.shape, <<1, 1, 2>>)
    THEN RaisedError("InvalidArgumentError: incompatible shapes")
    ELSE LET cmp == BroadcastShape(inst.shape, <<1, 1, 2>>)
             all_shape == RemoveAxis(cmp, Len(cmp))
             any_shape == RemoveAxis(all_shape, 2)
             rows == AsRank3(inst)
         IN  IF Len(any_shape) # 1
             THEN RaisedError("ensure_shape: in_img is not of rank 1")
             ELSE [mask |-> [i \in 1..any_shape[1] |->
                      InImgInstance(rows[IF Len(rows) = 1 THEN 1 ELSE i], gxv, gyv)]]

\* tf.boolean_mask(instances, in_img): the elements of the first axis whose
\* mask is true, in their order.
boolean_mask(t, mask) ==
    IF Len(t.shape) = 0 \/ t.shape[1] # Len(mask)
    THEN RaisedError("ValueError: mask does not match the tensor")
    ELSE LET kept == SelectSeq([i \in 1..Len(mask) |-> i], LAMBDA i : mask[i])
         IN  [shape |-> <<Len(kept)>> \o Tail(t.shape),
              val |-> [j \in 1..Len(kept) |-> t.val[kept[j]]]]

\* The local `instances` of generate_pafs after the filter (lines 326-332).
filter_instances(inst, gxv, gyv) ==
    LET m == in_img(inst, gxv, gyv)
    IN  IF IsError(m) THEN m ELSE boolean_mask(inst, m.mask)

\* tf.gather(instances, inds, axis=1) with inds the column `col` of
\* edge_inds.  An index outside [0, n_nodes) raises (tf.gather on CPU,
\* where the functions of a tf.data pipeline run).
gather_nodes(t, einds, col) ==
    IF Len(t.shape) < 2
    THEN RaisedError("InvalidArgumentError: gather axis out of range")
    ELSE IF \E e \in DOMAIN einds : einds[e][col] < 0 \/ einds[e][col] >= t.shape[2]
    THEN RaisedError("InvalidArgumentError: index out of range")
    ELSE [shape |-> <<t.shape[1], Len(einds)>> \o SubSeq(t.shape, 3, Len(t.shape)),
          val |-> [i \in 1..t.shape[1] |-> [e \in 1..Len(einds) |->
                      t.val[i][einds[e][col] + 1]]]]

get_edge_points(t, einds) ==
    LET edge_srcs == gather_nodes(t, einds, 1)
        edge_dsts == gather_nodes(t, einds, 2)
    IN  IF IsError(edge_srcs) THEN edge_srcs
        ELSE IF IsError(edge_dsts) THEN edge_dsts
        ELSE [sources |-> edge_srcs, destinations |-> edge_dsts]

\* tf.ensure_shape(t, want), a dimension of -1 standing for None.
ensure_shape(t, want) ==
    IF Len(t.shape) = Len(want)
       /\ \A i \in 1..Len(want) : want[i] = -1 \/ want[i] = t.shape[i]
    THEN t
    ELSE RaisedError("InvalidArgumentError: ensure_shape")

\* Mutation of flatten_pafs: the channels are laid out component by
\* component (channel c * n_edges + e) instead of edge by edge.
flatten_pafs_by_component(field, n_edges) ==
    [y \in DOMAIN field |-> [x \in DOMAIN field[y] |-> [ch \in 1..(n_edges * 2) |->
        field[y][x][((ch - 1) % n_edges) + 1][((ch - 1) \div n_edges) + 1]]]]

\* tf.reshape(pafs, [grid_height, grid_width, n_edges * 2])
flatten_pafs(field, n_edges) ==
    [y \in DOMAIN field |-> [x \in DOMAIN field[y] |-> [ch \in 1..(n_edges * 2) |->
        field[y][x][((ch - 1) \div 2) + 1][((ch - 1) % 2) + 1]]]]

\* Mutation of attach_pafs: only the keys of input_keys are passed on.
attach_to_input_keys_only(ex, field) ==
    [k \in {"image", "instances", "skeleton_inds", "part_affinity_fields"} |->
        IF k = "part_affinity_fields" THEN field ELSE ex[k]]

\* example["part_affinity_fields"] = pafs; return example
attach_pafs(ex, field) ==
    [k \in DOMAIN ex \cup {"part_affinity_fields"} |->
        IF k = "part_affinity_fields" THEN field ELSE ex[k]]

\* Lines 324-353.  The ensure_shape of lines 345 and 349 cannot raise: the
\* field is built on the grid vectors its expected shape is taken from.
generate_pafs(ex, gxv, gyv, einds, sigma, flatten_channels) ==
    LET kept == filter_instances(ex["instances"], gxv, gyv)
        n_edges == Len(einds)
    IN  IF IsError(kept) THEN kept
        ELSE LET edge_points == get_edge_points(kept, einds)
             IN  IF IsError(edge_points) THEN edge_points
                 ELSE LET esrcs == ensure_shape(edge_points.sources, <<-1, n_edges, 2>>)
                          edsts == ensure_shape(edge_points.destinations, <<-1, n_edges, 2>>)
                      IN  IF IsError(esrcs) THEN esrcs
                          ELSE IF IsError(edsts) THEN edsts
                          ELSE LET field == make_multi_pafs(gxv, gyv, esrcs.val,
                                                             edsts.val, sigma, n_edges)
                               IN  attach_pafs(ex, IF flatten_channels
                                                   THEN flatten_pafs(field, n_edges)
                                                   ELSE field)

-----------------------------------------------------------------------------
(* Inputs of the function-level specifications *)

\* Largest coordinate magnitude (in pixels) of a query point or edge end
\* given to distance_to_edge.
MaxCoord == 1
\* Image height and width (pixels) of the grid given to make_multi_pafs.
MaxHeight == 2
MaxWidth == 3
\* Largest number of instances in one frame.
MaxInstances == 3
\* sigma: float = attr.ib(default=1.0)
DefaultSigma == 1

Coords == ((-(MaxCoord * Sub)) .. (MaxCoord * Sub)) \cup {NaN}
Points2 == Coords \X Coords

\* The edge <<source, destination>> of one instance given to
\* make_multi_pafs: along a grid column, diagonal, of zero
\* length, and with a missing (NaN) source keypoint.
MultiEdges == { <<<<1, 1>>, <<1, 3>>>>, <<<<1, 1>>, <<4, 3>>>>,
                <<<<1, 1>>, <<1, 1>>>>, <<<<NaN, NaN>>, <<1, 3>>>> }
MultiGrid == make_grid_vectors(MaxHeight, MaxWidth, 1)

DistIdle ==
    /\ points = <<>>
    /\ edge_source = <<>>
    /\ edge_destination = <<>>
    /\ distances = <<>>

MultiIdle ==
    /\ edge_sources = <<>>
    /\ edge_destinations = <<>>
    /\ pafs = <<>>

StageIdle ==
    /\ self = <<>>
    /\ xv = <<>>
    /\ yv = <<>>
    /\ edge_inds = <<>>

GenIdle ==
    /\ example = <<>>
    /\ instances = <<>>
    /\ result = <<>>

StreamIdle ==
    /\ input_ds = <<>>
    /\ pc = "idle"
    /\ peek_it = 0
    /\ next_in = 0
    /\ num_parallel_calls = 0
    /\ invocations = <<>>
    /\ out = <<>>

-----------------------------------------------------------------------------
(* distance_to_edge on every point and edge of the coordinate range *)

InitDist ==
    /\ points \in Points2
    /\ edge_source \in Points2
    /\ edge_destination \in Points2
    /\ distances = <<>>
    /\ fpc = "args"
    /\ MultiIdle
    /\ StageIdle
    /\ GenIdle
    /\ StreamIdle

CallDistanceToEdge ==
    /\ fpc = "args"
    /\ distances' = distance_to_edge(points, edge_source, edge_destination)
    /\ fpc' = "returned"
    /\ UNCHANGED <<points, edge_source, edge_destination, mvars, svars, gvars, pvars>>

NextDist == CallDistanceToEdge

SpecDist == InitDist /\ [][NextDist]_vars

-----------------------------------------------------------------------------
(* make_multi_pafs on every list of up to MaxInstances instances *)

InitMulti ==
    /\ \E n \in 0..MaxInstances : \E es \in [1..n -> MultiEdges] :
          \* tensors [n, 1, 2]: one edge per instance
          /\ edge_sources = [i \in 1..n |-> <<es[i][1]>>]
          /\ edge_destinations = [i \in 1..n |-> <<es[i][2]>>]
    /\ pafs = <<>>
    /\ fpc = "args"
    /\ DistIdle
    /\ StageIdle
    /\ GenIdle
    /\ StreamIdle

CallMakeMultiPafs ==
    /\ fpc = "args"
    /\ pafs' = make_multi_pafs(MultiGrid[1], MultiGrid[2], edge_sources,
                               edge_destinations, DefaultSigma, 1)
    /\ fpc' = "returned"
    /\ UNCHANGED <<edge_sources, edge_destinations, dvars, svars, gvars, pvars>>

NextMulti == CallMakeMultiPafs

SpecMulti == InitMulti /\ [][NextMulti]_vars

-----------------------------------------------------------------------------
(* generate_pafs on every record of a family, for every configuration *)

\* Largest number of instances in the record given to generate_pafs.
MaxFrameInstances == 2

\* sleap.Skeleton: its nodes (their number) and its edge_inds.
Skeleton2 == [n_nodes |-> 2, edge_inds |-> <<<<0, 1>>>>]
Skeleton3 == [n_nodes |-> 3, edge_inds |-> <<<<0, 1>>, <<1, 2>>>>]
\* A skeleton object whose edge names a node it does not have.
SkeletonOutOfRange == [n_nodes |-> 2, edge_inds |-> <<<<0, 2>>>>]

\* Mutation of skeleton_edge_inds: the edges of the last skeleton.
last_skeleton_edge_inds(skeletons) == skeletons[Len(skeletons)].edge_inds

\* edge_inds = tf.cast(self.skeletons[0].edge_inds, dtype=tf.int32)
skeleton_edge_inds(skeletons) == skeletons[1].edge_inds

\* The attributes of a PartAffinityFieldsGenerator.
Generators ==
    [sigma : {DefaultSigma},
     output_stride : {1, 2},
     skeletons : {<<Skeleton2>>, <<Skeleton3, Skeleton2>>},
     flatten_channels : BOOLEAN]

\* Instances of two keypoints on a grid: both keypoints in the image; one on
\* the lower bound x = 0 and one left of it; both outside with the edge
\* crossing the grid; each with one coordinate on the upper bound; one in
\* the image and one missing.
FrameInstances(gxv, gyv) ==
    { <<<<1, 1>>, <<3, 1>>>>,
      <<<<0, 1>>, <<-2, 1>>>>,
      <<<<-2, 1>>, <<Last(gxv) + 2, 1>>>>,
      <<<<Last(gxv), 1>>, <<1, Last(gyv)>>>>,
      <<<<1, 1>>, <<NaN, NaN>>>> }

\* A keypoint outside the image, for a third node.
ExtraPoint == <<-2, -2>>

\* The lists of up to MaxFrameInstances instances.
InstanceLists(gxv, gyv) ==
    UNION {[1..n -> FrameInstances(gxv, gyv)] : n \in 0..MaxFrameInstances}

\* The `instances` tensors made of a list of two-keypoint instances:
\* [n, 2, 2]; [n, 3, 2] with a third keypoint; [n, 1, 2] with the first
\* keypoint only; [1, n, 2, 2] with a batch axis; and [2, 2], one
\* instance without the instance axis.
InstanceTensors(list) ==
    { [shape |-> <<Len(list), 2, 2>>, val |-> list],
      [shape |-> <<Len(list), 3, 2>>,
       val |-> [i \in 1..Len(list) |-> Append(list[i], ExtraPoint)]],
      [shape |-> <<Len(list), 1, 2>>,
       val |-> [i \in 1..Len(list) |-> <<list[i][1]>>]],
      [shape |-> <<1, Len(list), 2, 2>>, val |-> <<list>>] }
    \cup (IF list = <<>> THEN {} ELSE {[shape |-> <<2, 2>>, val |-> list[1]]})

\* A "part_affinity_fields" left in a record by an earlier stage.
StalePafs == <<<<<<<<Q, 0>>>>>>>>

\* The records with this `instances`: with the keys of input_keys only, and
\* with a "scale" and an earlier "part_affinity_fields" besides.  An image
\* is represented by its shape [height, width, channels].
RecordsWith(image, t) ==
    { [image |-> image, instances |-> t,
       skeleton_inds |-> [i \in 1..t.shape[1] |-> 0]],
      [image |-> image, instances |-> t,
       skeleton_inds |-> [i \in 1..t.shape[1] |-> 0],
       scale |-> <<Q, Q>>, part_affinity_fields |-> StalePafs] }

Records(gxv, gyv) ==
    UNION {UNION {RecordsWith(<<MaxHeight, MaxWidth, 1>>, t) : t \in InstanceTensors(list)} :
           list \in InstanceLists(gxv, gyv)}

InitGen ==
    /\ self \in Generators
    /\ xv = make_grid_vectors(MaxHeight, MaxWidth, self.output_stride)[1]
    /\ yv = make_grid_vectors(MaxHeight, MaxWidth, self.output_stride)[2]
    /\ edge_inds = skeleton_edge_inds(self.skeletons)
    /\ example \in Records(xv, yv)
    /\ instances = <<>>
    /\ result = <<>>
    /\ fpc = "args"
    /\ DistIdle
    /\ MultiIdle
    /\ StreamIdle

CallGeneratePafs ==
    /\ fpc = "args"
    /\ instances' = filter_instances(example["instances"], xv, yv)
    /\ result' = generate_pafs(example, xv, yv, edge_inds, self.sigma,
                               self.flatten_channels)
    /\ fpc' = "returned"
    /\ UNCHANGED <<example, dvars, mvars, svars, pvars>>

NextGen == CallGeneratePafs

SpecGen == InitGen /\ [][NextGen]_vars

-----------------------------------------------------------------------------
(* transform_dataset, and the dataset it returns read by a consumer *)

\* Largest number of records of the input dataset.
MaxRecords == 2
\* Largest degree of parallelism tf.data gives the map (AUTOTUNE).
MaxParallelCalls == 2

\* The generators of the streams: those of stride 1, and one whose skeleton
\* has an edge index out of range.
StreamGenerators ==
    {g \in Generators : g.output_stride = 1}
    \cup {[sigma |-> DefaultSigma, output_stride |-> 1,
            skeletons |-> <<SkeletonOutOfRange>>, flatten_channels |-> FALSE]}

\* The records of the streams: one instance in a full-size image; no
\* instance in a smaller image; an instance with a third keypoint; one
\* instance without the instance axis; an instance with a third keypoint in
\* a smaller image.
StreamRecords ==
    { [image |-> <<MaxHeight, MaxWidth, 1>>, skeleton_inds |-> <<0>>,
       instances |-> [shape |-> <<1, 2, 2>>, val |-> <<<<<<1, 1>>, <<3, 1>>>>>>]],
      [image |-> <<1, 2, 1>>, skeleton_inds |-> <<>>,
       instances |-> [shape |-> <<0, 2, 2>>, val |-> <<>>]],
      [image |-> <<MaxHeight, MaxWidth, 1>>, skeleton_inds |-> <<0>>,
       instances |-> [shape |-> <<1, 3, 2>>,
                      val |-> <<<<<<1, 1>>, <<3, 1>>, ExtraPoint>>>>]],
      [image |-> <<MaxHeight, MaxWidth, 1>>, skeleton_inds |-> <<0>>,
       instances |-> [shape |-> <<2, 2>>, val |-> <<<<1, 1>>, <<3, 1>>>>]],
      [image |-> <<1, 2, 1>>, skeleton_inds |-> <<0>>,
       instances |-> [shape |-> <<1, 3, 2>>,
                      val |-> <<<<<<1, 1>>, <<3, 1>>, ExtraPoint>>>>]] }

\* Mutation of new_iterator: the iterators of a dataset share one position.
shared_iterator(already_read) == already_read

\* iter(dataset): the number of records a new iterator has read is 0,
\* whatever other iterators have read from the dataset (already_read).
new_iterator(already_read) == 0

\* Mutation of next_to_emit: the newest finished invocation is delivered.
newest_finished(invs) ==
    IF \E j \in DOMAIN invs : invs[j].done
    THEN CHOOSE j \in DOMAIN invs :
             invs[j].done /\ \A k \in DOMAIN invs : invs[k].done => k <= j
    ELSE 0

\* The invocation whose result the iterator of the map delivers next: the
\* oldest one, once it has finished (0: the consumer waits).
next_to_emit(invs) == IF invs # <<>> /\ invs[1].done THEN 1 ELSE 0

Init ==
    /\ self \in StreamGenerators
    /\ input_ds \in UNION {[1..n -> StreamRecords] : n \in 0..MaxRecords}
    /\ num_parallel_calls \in 1..MaxParallelCalls
    /\ pc = "start"
    /\ peek_it = 0
    /\ next_in = 0
    /\ invocations = <<>>
    /\ out = <<>>
    /\ xv = <<>>
    /\ yv = <<>>
    /\ edge_inds = <<>>
    /\ fpc = "stream"
    /\ DistIdle
    /\ MultiIdle
    /\ GenIdle

\* transform_dataset, lines 306-359: the first record of a new iterator
\* gives the image size, the grid and the edges are computed, and the
\* mapped dataset is returned.
Setup ==
    /\ pc = "start"
    /\ new_iterator(0) < Len(input_ds)
    /\ LET test_example == input_ds[new_iterator(0) + 1]
           grid == make_grid_vectors(test_example["image"][1],
                                     test_example["image"][2], self.output_stride)
       IN  /\ xv' = grid[1]
           /\ yv' = grid[2]
    /\ peek_it' = new_iterator(0) + 1
    /\ edge_inds' = skeleton_edge_inds(self.skeletons)
    /\ pc' = "returned"
    /\ UNCHANGED <<self, input_ds, next_in, num_parallel_calls, invocations, out,
                   dvars, mvars, gvars, fpc>>

\* next(iter(input_ds)) on a dataset without records raises StopIteration.
SetupFails ==
    /\ pc = "start"
    /\ new_iterator(0) >= Len(input_ds)
    /\ pc' = "raised"
    /\ UNCHANGED <<svars, input_ds, peek_it, next_in, num_parallel_calls,
                   invocations, out, dvars, mvars, gvars, fpc>>

\* The consumer starts to iterate over the returned dataset: the map makes
\* its iterator over input_ds.
Iterate ==
    /\ pc = "returned"
    /\ next_in' = new_iterator(peek_it)
    /\ pc' = "streaming"
    /\ UNCHANGED <<svars, input_ds, peek_it, num_parallel_calls, invocations, out,
                   dvars, mvars, gvars, fpc>>

\* The map reads the next record of input_ds and starts generate_pafs on
\* it, as long as fewer than num_parallel_calls invocations are held.
Dispatch ==
    /\ pc = "streaming"
    /\ next_in < Len(input_ds)
    /\ Len(invocations) < num_parallel_calls
    /\ next_in' = next_in + 1
    /\ invocations' = Append(invocations,
                             [elem |-> next_in + 1, done |-> FALSE, result |-> <<>>])
    /\ UNCHANGED <<svars, input_ds, pc, peek_it, num_parallel_calls, out,
                   dvars, mvars, gvars, fpc>>

\* An invocation of generate_pafs finishes: it returns the augmented record
\* or raises.
Complete(j) ==
    /\ pc = "streaming"
    /\ ~invocations[j].done
    /\ invocations' = [invocations EXCEPT ![j] =
          [elem |-> @.elem, done |-> TRUE,
           result |-> generate_pafs(input_ds[@.elem], xv, yv, edge_inds,
                                    self.sigma, self.flatten_channels)]]
    /\ UNCHANGED <<svars, input_ds, pc, peek_it, next_in, num_parallel_calls, out,
                   dvars, mvars, gvars, fpc>>

\* next() of the consumer: it receives the record, or the error raised, of
\* the invocation that is next to deliver.
Emit ==
    /\ pc = "streaming"
    /\ next_to_emit(invocations) # 0
    /\ out' = Append(out, invocations[next_to_emit(invocations)].result)
    /\ invocations' = [j \in 1..(Len(invocations) - 1) |->
                          IF j < next_to_emit(invocations)
                          THEN invocations[j] ELSE invocations[j + 1]]
    /\ UNCHANGED <<svars, input_ds, pc, peek_it, next_in, num_parallel_calls,
                   dvars, mvars, gvars, fpc>>

Next ==
    \/ Setup
    \/ SetupFails
    \/ Iterate
    \/ Dispatch
    \/ \E j \in DOMAIN invocations : Complete(j)
    \/ Emit

Spec == Init /\ [][Next]_vars

\* The index tuples <<y, x, e, c>> of a tensor [H, W, n_edges, 2].
Cells(t) ==
    UNION {UNION {{<<y, x, e, c>> : e \in DOMAIN t[y][x], c \in 1..2} :
                  x \in DOMAIN t[y]} : y \in DOMAIN t}
At(t, k) == t[k[1]][k[2]][k[3]][k[4]]

Perms(n) == {p \in [1..n -> 1..n] : \A i, j \in 1..n : p[i] = p[j] => i = j}
Permute(t, p) == [i \in DOMAIN t |-> t[p[i]]]

-----------------------------------------------------------------------------
(* Properties of distance_to_edge (SpecDist) *)

FiniteArgs ==
    \A c \in 1..2 : ~IsNaN(points[c]) /\ ~IsNaN(edge_source[c]) /\ ~IsNaN(edge_destination[c])

\* C9: for every query point and every edge, distance_to_edge returns the
\* squared distance from the point to the closest point of the segment
\* [source, destination] (to the source point when the edge has zero
\* length): the standard point-to-segment formula.
C9_StandardSegmentDistance ==
    fpc = "returned" /\ FiniteArgs =>
        RatEq(distances, SegmentDistance(points, edge_source, edge_destination))

-----------------------------------------------------------------------------
(* Properties of make_multi_pafs (SpecMulti) *)

\* The single-instance PAF of instance i of the arguments.
InstancePaf(i) ==
    make_pafs(MultiGrid[1], MultiGrid[2], edge_sources[i], edge_destinations[i],
              DefaultSigma)

\* make_multi_pafs of the arguments with the instances permuted by p.
PermutedPafs(p) ==
    make_multi_pafs(MultiGrid[1], MultiGrid[2], Permute(edge_sources, p),
                    Permute(edge_destinations, p), DefaultSigma, 1)

\* C7: the result of make_multi_pafs holds no NaN, and a cell where the
\* single-instance PAF of every instance is NaN is exactly 0.
C7_NoNaNInResult ==
    fpc = "returned" =>
        \A k \in Cells(pafs) :
            /\ ~IsNaN(At(pafs, k))
            /\ (\A i \in DOMAIN edge_sources : IsNaN(At(InstancePaf(i), k)))
                  => At(pafs, k) = 0

\* Two instances, each NaN at every cell (one zero-length edge, one missing
\* keypoint), have been aggregated.
C7_Witness ==
    /\ fpc = "returned"
    /\ Len(edge_sources) = 2
    /\ edge_sources[1] # edge_sources[2]
    /\ \A k \in Cells(pafs) :
          \A i \in DOMAIN edge_sources : IsNaN(At(InstancePaf(i), k))

\* C8 as stated: for every permutation of the instances the aggregated PAF
\* is the same at every cell.
C8_SameForEveryOrder ==
    fpc = "returned" =>
        \A p \in Perms(Len(edge_sources)) : PermutedPafs(p) = pafs

\* The most two orders of summing n floats of magnitude up to 1.0 can differ:
\* n - 1 roundings each of at most half a unit in the last place of n * 1.0.
OrderTolerance(n) == IF n = 0 THEN 0 ELSE (n - 1) * Ulp(n * Q)

\* C8 amended: for every permutation of the instances the aggregated PAF is
\* the same at every cell up to the rounding of the float additions, and
\* exactly the same when there are at most two instances.
C8_SameUpToRounding ==
    fpc = "returned" =>
        \A p \in Perms(Len(edge_sources)) :
            LET r == PermutedPafs(p)
                n == Len(edge_sources)
            IN  /\ n <= 2 => r = pafs
                /\ r = pafs \/ \A k \in Cells(pafs) :
                                   Abs(At(r, k) - At(pafs, k)) <= OrderTolerance(n)

\* Three instances whose order changes the aggregated floats.
C8_Witness ==
    /\ fpc = "returned"
    /\ Len(edge_sources) = 3
    /\ \E p \in Perms(3) : PermutedPafs(p) # pafs

-----------------------------------------------------------------------------
(* Properties of generate_pafs (SpecGen) *)

\* generate_pafs has returned a record (it has not raised).
Returned == fpc = "returned" /\ ~IsError(result)

\* The record's `instances` is [n_instances, n_nodes, 2] with the number of
\* nodes of the skeleton in use.
WellFormed(ex, skeleton) ==
    /\ Len(ex["instances"].shape) = 3
    /\ ex["instances"].shape[2] = skeleton.n_nodes
    /\ ex["instances"].shape[3] = 2

\* C3 as stated: the output record has the input record's keys plus
\* part_affinity_fields, and the value under every input key is the input
\* value.
C3_EveryInputKeyUnchanged ==
    Returned =>
        /\ DOMAIN result = DOMAIN example \cup {"part_affinity_fields"}
        /\ \A k \in DOMAIN example : result[k] = example[k]

\* C3 amended: the output record has the input record's keys plus
\* part_affinity_fields, and the value under every input key other than
\* part_affinity_fields is the input value.
C3_OtherKeysUnchanged ==
    Returned =>
        /\ DOMAIN result = DOMAIN example \cup {"part_affinity_fields"}
        /\ \A k \in DOMAIN example \ {"part_affinity_fields"} : result[k] = example[k]

\* A record with keys beyond input_keys, some of whose instances the filter
\* dropped, has been augmented.
C3_Witness ==
    /\ Returned
    /\ "scale" \in DOMAIN example
    /\ "part_affinity_fields" \in DOMAIN example
    /\ 0 < instances.shape[1]
    /\ instances.shape[1] < example["instances"].shape[1]

\* Some keypoint of the instance has 0 <= x < xv_max and 0 <= y < yv_max.
SomeKeypointInBounds(nodes) ==
    \E j \in DOMAIN nodes :
        /\ ~IsNaN(nodes[j][1]) /\ 0 <= nodes[j][1] /\ nodes[j][1] < Last(xv)
        /\ ~IsNaN(nodes[j][2]) /\ 0 <= nodes[j][2] /\ nodes[j][2] < Last(yv)

\* C4: the instances kept for PAF generation are those with at least one
\* keypoint (x, y) such that 0 <= x < xv_max and 0 <= y < yv_max, lower
\* bound included; every other instance is dropped.
C4_KeptIffSomeKeypointInBounds ==
    fpc = "returned" /\ Len(example["instances"].shape) = 3
                     /\ example["instances"].shape[3] = 2 =>
        /\ ~IsError(instances)
        /\ instances.val = SelectSeq(example["instances"].val, SomeKeypointInBounds)

\* The field has the shape of the grid and is 0 everywhere.
ZeroField(field) ==
    /\ Len(field) = Len(yv)
    /\ \A y \in DOMAIN field :
          /\ Len(field[y]) = Len(xv)
          /\ \A x \in DOMAIN field[y] :
                IF self.flatten_channels
                THEN field[y][x] = [ch \in 1..(2 * Len(edge_inds)) |-> 0]
                ELSE field[y][x] = [e \in 1..Len(edge_inds) |-> <<0, 0>>]

\* The instances with every keypoint outside the image, of as many nodes as
\* those of the record.
OutOfFrameInstances(n_nodes) ==
    { IF n_nodes = 3 THEN Append(nodes, ExtraPoint) ELSE nodes :
        nodes \in {i \in FrameInstances(xv, yv) : ~SomeKeypointInBounds(i)} }

\* The record ex with the instance `nodes` added after its first `at`
\* instances.
WithInstance(ex, nodes, at) ==
    LET t == ex["instances"]
        added == [shape |-> <<t.shape[1] + 1, t.shape[2], t.shape[3]>>,
                  val |-> SubSeq(t.val, 1, at) \o <<nodes>>
                          \o SubSeq(t.val, at + 1, Len(t.val))]
    IN  [k \in DOMAIN ex |-> IF k = "instances" THEN added ELSE ex[k]]

\* C5: adding to the record's instances, at any place, an instance whose
\* keypoints are all outside the image leaves the generated
\* part_affinity_fields the same at every cell.
C5_OutOfFrameInstanceIgnored ==
    Returned =>
        \A nodes \in OutOfFrameInstances(example["instances"].shape[2]) :
            \A at \in 0..example["instances"].shape[1] :
                LET with == generate_pafs(WithInstance(example, nodes, at), xv, yv,
                                          edge_inds, self.sigma, self.flatten_channels)
                IN  /\ ~IsError(with)
                    /\ with["part_affinity_fields"] = result["part_affinity_fields"]

\* A record with an instance in the image and an instance outside it has
\* been given a field that is not zero everywhere.
C5_Witness ==
    /\ Returned
    /\ instances.shape[1] > 0
    /\ \E i \in 1..example["instances"].shape[1] :
          example["instances"].val[i] \in OutOfFrameInstances(example["instances"].shape[2])
    /\ ~ZeroField(result["part_affinity_fields"])

\* C6: a well-formed record with no instance, or whose instances are all
\* dropped by the in-frame filter, gets a part_affinity_fields of the shape
\* of the grid that is 0 at every cell, and no error.
C6_NoInstanceGivesZeroField ==
    fpc = "returned" /\ WellFormed(example, self.skeletons[1])
                     /\ ~IsError(instances) /\ instances.shape[1] = 0 =>
        /\ ~IsError(result)
        /\ ZeroField(result["part_affinity_fields"])

\* A record whose two instances were both dropped, one of them with an edge
\* that crosses the grid, has been given its field.
C6_Witness ==
    /\ Returned
    /\ WellFormed(example, self.skeletons[1])
    /\ example["instances"].shape[1] = 2
    /\ instances.shape[1] = 0
    /\ \E i \in 1..2 : example["instances"].val[i][1] = <<-2, 1>>

-----------------------------------------------------------------------------
(* Properties of the stream (Spec) *)

\* What generate_pafs makes of the i-th record of the input.
Augmented(i) ==
    generate_pafs(input_ds[i], xv, yv, edge_inds, self.sigma, self.flatten_channels)

\* C1: whatever the degree of parallelism and the order in which the
\* invocations finish, the i-th record the consumer receives is the
\* augmentation of the i-th input record, and when the input is exhausted
\* and nothing is in flight it has received as many records as the input
\* has: nothing is reordered, dropped or duplicated.
C1_OrderPreserved ==
    pc = "streaming" =>
        /\ Len(out) <= Len(input_ds)
        /\ \A i \in 1..Len(out) : out[i] = Augmented(i)
        /\ (next_in = Len(input_ds) /\ invocations = <<>>) => Len(out) = Len(input_ds)

\* A map of parallelism two or more has delivered all the records of a
\* stream of at least two records, the first two distinct, none raising.
C1_Witness ==
    /\ pc = "streaming"
    /\ num_parallel_calls >= 2
    /\ Len(input_ds) >= 2
    /\ input_ds[1] # input_ds[2]
    /\ Len(out) = Len(input_ds)
    /\ \A i \in 1..Len(out) : ~IsError(out[i])

\* C2: no record is read by the map or transformed before the setup has
\* read the first record and computed the grid, and the setup does not take
\* that record out of the stream: the first record the consumer receives is
\* the augmentation of the first input record.
C2_PeekBeforeMapAndNotConsumed ==
    /\ pc = "start" => next_in = 0 /\ invocations = <<>> /\ out = <<>>
    /\ (next_in > 0 \/ invocations # <<>> \/ out # <<>>) =>
          peek_it = 1 /\ xv # <<>> /\ yv # <<>>
    /\ out # <<>> => out[1] = Augmented(1)

\* The setup has read the first record and the consumer has received a
\* first record, of a stream whose second record is another one.
C2_Witness ==
    /\ peek_it = 1
    /\ Len(out) >= 1
    /\ ~IsError(out[1])
    /\ Len(input_ds) >= 2
    /\ input_ds[1] # input_ds[2]

\* C10: for every record whose instances array has a wrong rank or node
\* count, the consumer receives an error at the place of that record, never
\* a record with a field.
C10_MalformedRecordRaises ==
    \A i \in 1..Len(out) :
        ~WellFormed(input_ds[i], self.skeletons[1]) => IsError(out[i])

\* Some edge of a configured skeleton names a node index outside
\* [0, n_nodes).
EdgeIndexOutOfRange ==
    \E k \in DOMAIN self.skeletons :
        \E e \in DOMAIN self.skeletons[k].edge_inds : \E c \in 1..2 :
            \/ self.skeletons[k].edge_inds[e][c] < 0
            \/ self.skeletons[k].edge_inds[e][c] >= self.skeletons[k].n_nodes

\* C11: when an edge index of a skeleton is outside [0, n_nodes),
\* transform_dataset raises during its setup: it returns no dataset, and no
\* record is read by the map or transformed.
C11_EdgeIndexRejectedAtSetup ==
    EdgeIndexOutOfRange =>
        /\ pc \in {"start", "raised"}
        /\ next_in = 0
        /\ invocations = <<>>
        /\ out = <<>>

\* The record ex with another value under skeleton_inds.
WithSkeletonInds(ex, inds) ==
    [k \in DOMAIN ex |-> IF k = "skeleton_inds" THEN inds ELSE ex[k]]

\* Values of skeleton_inds for a record of n instances: every instance on
\* skeleton 0, every instance on skeleton 1, and none given.
SkeletonIndsOf(n) == {[i \in 1..n |-> 0], [i \in 1..n |-> 1], <<>>}

\* Lists of skeletons that may follow the first one.
SkeletonTails == {<<>>, <<Skeleton2>>, <<Skeleton3>>, <<Skeleton3, Skeleton2>>}

\* C12: the edges used for a record are those of the first configured
\* skeleton, and the generated part_affinity_fields is the same whatever
\* the record's skeleton_inds and whatever skeletons follow the first one
\* in `skeletons`.
C12_FirstSkeletonOnly ==
    Returned =>
        /\ edge_inds = self.skeletons[1].edge_inds
        /\ \A inds \in SkeletonIndsOf(example["instances"].shape[1]) :
              \A tail \in SkeletonTails :
                  LET other == generate_pafs(WithSkeletonInds(example, inds), xv, yv,
                                   skeleton_edge_inds(<<self.skeletons[1]>> \o tail),
                                   self.sigma, self.flatten_channels)
                  IN  /\ ~IsError(other)
                      /\ other["part_affinity_fields"] = result["part_affinity_fields"]

\* A generator with two skeletons has given a record with an instance in
\* the image a field that is not zero everywhere.
C12_Witness ==
    /\ Returned
    /\ Len(self.skeletons) = 2
    /\ self.skeletons[1] # self.skeletons[2]
    /\ instances.shape[1] > 0
    /\ ~ZeroField(result["part_affinity_fields"])

\* What instance i adds at the cell k: its single-instance PAF value, 0
\* where that is NaN.
Contribution(i, k) ==
    IF IsNaN(At(InstancePaf(i), k)) THEN 0 ELSE At(InstancePaf(i), k)

\* The float sum, in the order of the instances, of what the first i
\* instances add at the cell k.
RECURSIVE FloatSum(_, _)
FloatSum(k, i) ==
    IF i = 0 THEN 0 ELSE FAdd(FloatSum(k, i - 1), Contribution(i, k))

\* The same sum without rounding.
RECURSIVE ExactSum(_, _)
ExactSum(k, i) ==
    IF i = 0 THEN 0 ELSE ExactSum(k, i - 1) + Contribution(i, k)

FirstRecordGrid ==
    make_grid_vectors(input_ds[1]["image"][1], input_ds[1]["image"][2],
                      self.output_stride)

\* With flatten_channels unset, the field is [Len(yv), Len(xv), n_edges, 2].
FieldShaped(field) ==
    /\ Len(field) = Len(yv)
    /\ \A y \in DOMAIN field :
          /\ Len(field[y]) = Len(xv)
          /\ \A x \in DOMAIN field[y] :
                /\ Len(field[y][x]) = Len(edge_inds)
                /\ \A e \in DOMAIN field[y][x] : Len(field[y][x][e]) = 2

\* With flatten_channels set, the field is [Len(yv), Len(xv), n_edges * 2]
\* and its channel 2 * e + c (e, c counted from 0) is component c of edge
\* e of the field `unflattened`.
FlatFieldShaped(field, unflattened) ==
    /\ Len(field) = Len(yv)
    /\ \A y \in DOMAIN field :
          /\ Len(field[y]) = Len(xv)
          /\ \A x \in DOMAIN field[y] :
                /\ Len(field[y][x]) = 2 * Len(edge_inds)
                /\ \A e \in 1..Len(edge_inds) : \A c \in 1..2 :
                      field[y][x][2 * (e - 1) + c] = unflattened[y][x][e][c]

\* C14: once transform_dataset has returned, the grid is the one of the
\* first record's image and the edges are those of the first skeleton, at
\* every later moment; every record delivered, whatever its own image
\* size, has a part_affinity_fields of shape [H, W, n_edges, 2] with H and
\* W the lengths of that grid, or [H, W, n_edges * 2] with channel
\* 2 * e + c holding component c of edge e when flatten_channels is set.
C14_GridOnceAndFieldShape ==
    pc \in {"returned", "streaming"} =>
        /\ xv = FirstRecordGrid[1]
        /\ yv = FirstRecordGrid[2]
        /\ edge_inds = self.skeletons[1].edge_inds
        /\ \A i \in 1..Len(out) :
              ~IsError(out[i]) =>
                  IF self.flatten_channels
                  THEN FlatFieldShaped(out[i]["part_affinity_fields"],
                           generate_pafs(input_ds[i], xv, yv, edge_inds, self.sigma,
                                         FALSE)["part_affinity_fields"])
                  ELSE FieldShaped(out[i]["part_affinity_fields"])

\* A generator that flattens the channels of two edges has delivered, as
\* second record, a record whose image is smaller than the first one's,
\* with a field in which the two components of an edge differ.
C14_Witness ==
    /\ pc = "streaming"
    /\ self.flatten_channels
    /\ Len(edge_inds) = 2
    /\ Len(out) >= 2
    /\ input_ds[2]["image"] # input_ds[1]["image"]
    /\ ~IsError(out[2])
    /\ \E y \in 1..Len(yv) : \E x \in 1..Len(xv) :
          out[2]["part_affinity_fields"][y][x][3] # out[2]["part_affinity_fields"][y][x][4]

====
